---- MODULE Spec2Model ----
(***************************************************************************)
(* Model of the protobuf-c enum generator                                  *)
(* (src/google/protobuf/compiler/c/c_enum.cc).                             *)
(*                                                                         *)
(* An EnumGenerator holds a pointer to an immutable EnumDescriptor and a   *)
(* dllexport string.  A driver calls its three renderers in any order and  *)
(* any number of times; each prints a fragment to the printer it is given. *)
(* Strings are sequences of byte values (ASCII codes), C arrays are        *)
(* functions over 0..n-1, and a printer's content is a sequence holding    *)
(* the structured fragment of the last call (empty before the first call). *)
(***************************************************************************)
EXTENDS Integers, Sequences, FiniteSets

\* ------------------------------------------------------------------ bounds
\* Largest number of values of an enum whose tables are generated once.
MaxN == 4

\* Largest number of values of an enum whose renderers the driver calls in
\* any order, any number of times.
MaxDriverN == 2

\* Value names: "A", "AB", "B", "a" (65 = 'A', 66 = 'B', 97 = 'a').
Names == {<<65>>, <<65, 66>>, <<66>>, <<97>>}

\* Value numbers.
Numbers == {-1, 5}

\* The enum's full name "p.T" (112 = 'p', 46 = '.', 84 = 'T'), its short
\* name "T" and its package "p".
FullNames == {<<112, 46, 84>>}

\* The dllexport declarations a generator is constructed with: "" and "X".
DllexportDecls == {<<>>, <<88>>}

VARIABLES
  descriptor_,      \* the EnumDescriptor: [full_name, name, package, values]
  dllexport_decl_,  \* the generator's dllexport string
  definition_out,   \* what the last GenerateDefinition printed
  declaration_out,  \* what the last GenerateDescriptorDeclarations printed
  descriptor_out,   \* what the last GenerateEnumDescriptor printed
  previous_out,     \* per renderer, what its call before the last printed
  locals,           \* GenerateEnumDescriptor's locals when it last returned
  value_calls,      \* every index passed to descriptor_->value() so far
  last_call         \* the renderer the driver called last

vars == <<descriptor_, dllexport_decl_, definition_out, declaration_out,
          descriptor_out, previous_out, locals, value_calls, last_call>>

\* ----------------------------------------------------------- string helpers
RECURSIVE Flatten(_)
Flatten(ss) == IF ss = <<>> THEN <<>> ELSE Head(ss) \o Flatten(Tail(ss))

UpperByte(c) == IF c \in 97..122 THEN c - 32 ELSE c

LowerByte(c) == IF c \in 65..90 THEN c + 32 ELSE c

\* c_helpers: upper-cases a value's symbolic name.
ToUpper(s) == [i \in 1..Len(s) |-> UpperByte(s[i])]

\* c_helpers: upper-snake-case of the dotted full name ('.' becomes "__").
FullNameToUpper(full_name) ==
  Flatten([i \in 1..Len(full_name) |->
            IF full_name[i] = 46 THEN <<95, 95>> ELSE <<UpperByte(full_name[i])>>])

\* c_helpers: lower-case accessor base name ('.' becomes "__").
FullNameToLower(full_name) ==
  Flatten([i \in 1..Len(full_name) |->
            IF full_name[i] = 46 THEN <<95, 95>> ELSE <<LowerByte(full_name[i])>>])

\* c_helpers: type identifier; every segment starts with a capital and the
\* segments are joined by "__".
FullNameToC(full_name) ==
  Flatten([i \in 1..Len(full_name) |->
            IF full_name[i] = 46 THEN <<95, 95>>
            ELSE IF i = 1 \/ full_name[i - 1] = 46 THEN <<UpperByte(full_name[i])>>
            ELSE <<full_name[i]>>])

RECURSIVE DecimalDigits(_)
DecimalDigits(n) ==
  IF n < 10 THEN <<48 + n>> ELSE DecimalDigits(n \div 10) \o <<48 + (n % 10)>>

\* SimpleItoa: the decimal text of an int (45 = '-').
SimpleItoa(n) == IF n < 0 THEN <<45>> \o DecimalDigits(-n) ELSE DecimalDigits(n)

RECURSIVE StrcmpFrom(_, _, _)
StrcmpFrom(a, b, i) ==
  IF i > Len(a) /\ i > Len(b) THEN 0
  ELSE IF i > Len(a) THEN -1
  ELSE IF i > Len(b) THEN 1
  ELSE IF a[i] < b[i] THEN -1
  ELSE IF a[i] > b[i] THEN 1
  ELSE StrcmpFrom(a, b, i + 1)

\* strcmp: byte-wise lexicographic comparison (sign of the result).
strcmp(a, b) == StrcmpFrom(a, b, 1)

\* ------------------------------------------------------------- descriptor
value_count(desc) == Len(desc.values)

\* descriptor_->value(i), for i in 0..value_count-1.
value(desc, i) == desc.values[i + 1]

EnumValues == [name : Names, number : Numbers]

ValueLists(max) == UNION {[1..n -> EnumValues] : n \in 0..max}

\* The descriptors of at most max values.  The generator validates nothing,
\* so value lists with repeated names or repeated numbers are included.
Descriptors(max) ==
  {[full_name |-> f, name |-> <<84>>, package |-> <<112>>, values |-> vs] :
     f \in FullNames, vs \in ValueLists(max)}

NoLocals ==
  [name_index |-> <<>>, value_index |-> <<>>, n_unique_values |-> 0,
   by_number_index |-> <<>>, by_name_index |-> <<>>]

Renderers == {"GenerateDefinition", "GenerateDescriptorDeclarations",
              "GenerateEnumDescriptor"}

\* The state after EnumGenerator's constructor.
Constructed(descriptors, dllexport_decls) ==
  /\ descriptor_ \in descriptors
  /\ dllexport_decl_ \in dllexport_decls
  /\ definition_out = <<>>
  /\ declaration_out = <<>>
  /\ descriptor_out = <<>>
  /\ previous_out = [r \in Renderers |-> <<>>]
  /\ locals = NoLocals
  /\ value_calls = {}
  /\ last_call = "none"

\* ---------------------------------------------------------------- sorting
\* Faulty variant of compare_name_indices_by_name: compares the names
\* without regard to case, as strcasecmp would.
compare_name_indices_ignoring_case(a, b) == strcmp(ToUpper(a.name), ToUpper(b.name))

compare_name_indices_by_name(a, b) == strcmp(a.name, b.name)

\* Faulty variant of compare_value_indices_by_value_then_index: the
\* declaration index does not break ties.
compare_value_indices_by_value(a, b) ==
  IF a.value < b.value THEN -1 ELSE IF a.value > b.value THEN 1 ELSE 0

compare_value_indices_by_value_then_index(a, b) ==
  IF a.value < b.value THEN -1
  ELSE IF a.value > b.value THEN 1
  ELSE IF a.index < b.index THEN -1
  ELSE IF a.index > b.index THEN 1
  ELSE 0

\* The orders of the positions S in which no element is placed after one
\* that compares greater; le holds the pairs <<x, y>> with compar(x, y) <= 0.
RECURSIVE SortedOrders(_, _)
SortedOrders(S, le) ==
  IF S = {} THEN {<<>>}
  ELSE UNION {{<<m>> \o t : t \in SortedOrders(S \ {m}, le)} :
                m \in {x \in S : \A y \in S : <<x, y>> \in le}}

\* qsort: the arrays it may leave, given the pairs of positions <<x, y>>
\* whose elements the comparator puts in order (compar(base[x], base[y]) <= 0).
\* It is not stable, so elements that compare equal may end in any order.
qsort(base, nmemb, le) ==
  {[j \in 0..(nmemb - 1) |-> base[o[j + 1]]] : o \in SortedOrders(0..(nmemb - 1), le)}

\* Lines 139-145: the two index arrays, in declaration order.
BuildNameIndex(desc) ==
  [j \in 0..(value_count(desc) - 1) |-> [name |-> value(desc, j).name, index |-> j]]

BuildValueIndex(desc) ==
  [j \in 0..(value_count(desc) - 1) |-> [value |-> value(desc, j).number, index |-> j]]

\* Lines 146-147: name_index after qsort with compare_name_indices_by_name.
SortedNameIndex(desc) ==
  LET base == BuildNameIndex(desc)
      pos  == 0..(value_count(desc) - 1)
  IN  qsort(base, value_count(desc),
            {p \in pos \X pos : compare_name_indices_by_name(base[p[1]], base[p[2]]) <= 0})

\* Lines 148-149: value_index after qsort with
\* compare_value_indices_by_value_then_index.
SortedValueIndex(desc) ==
  LET base == BuildValueIndex(desc)
      pos  == 0..(value_count(desc) - 1)
  IN  qsort(base, value_count(desc),
            {p \in pos \X pos :
               compare_value_indices_by_value_then_index(base[p[1]], base[p[2]]) <= 0})

\* ------------------------------------------------------ GenerateDefinition
\* Faulty variant of DefinitionMembers: the members follow the order of the
\* value-sorted index array instead of the declaration order.
DefinitionMembersByNumber(desc) ==
  LET sorted == CHOOSE a \in SortedValueIndex(desc) : TRUE
  IN  [i \in 1..value_count(desc) |->
         [name   |-> FullNameToUpper(desc.full_name) \o <<95, 95>>
                       \o value(desc, sorted[i - 1].index).name,
          number |-> SimpleItoa(value(desc, sorted[i - 1].index).number)]]

\* The members the loop prints, in loop order: "$prefix$$name$ = $number$,".
\* The prefix is FullNameToUpper(full_name) + "__" (95 = '_'); the name is
\* the value's name as declared.
DefinitionMembers(desc) ==
  [i \in 1..value_count(desc) |->
     [name   |-> FullNameToUpper(desc.full_name) \o <<95, 95>>
                   \o value(desc, i - 1).name,
      number |-> SimpleItoa(value(desc, i - 1).number)]]

\* The indices GenerateDefinition passes to descriptor_->value(): index 0
\* for min_value and max_value before the loop, then every loop index.  (The
\* min/max scan itself only reads values the loop has fetched and its
\* result is never printed.)
DefinitionValueCalls(desc) == {0} \cup (0..(value_count(desc) - 1))

GenerateDefinition ==
  /\ definition_out' =
       <<[classname |-> FullNameToC(descriptor_.full_name),
          members   |-> DefinitionMembers(descriptor_)]>>
  /\ previous_out' = [previous_out EXCEPT !["GenerateDefinition"] = definition_out]
  /\ value_calls' = value_calls \cup DefinitionValueCalls(descriptor_)
  /\ last_call' = "GenerateDefinition"
  /\ UNCHANGED <<descriptor_, dllexport_decl_, declaration_out, descriptor_out,
                 locals>>

\* ------------------------------------------ GenerateDescriptorDeclarations
\* "extern $dllexport$const ProtobufCEnumDescriptor $lcclassname$__descriptor;"
\* (32 = ' ').
DescriptorDeclaration(desc, dllexport_decl) ==
  [dllexport   |-> IF dllexport_decl = <<>> THEN <<>> ELSE dllexport_decl \o <<32>>,
   classname   |-> FullNameToC(desc.full_name),
   lcclassname |-> FullNameToLower(desc.full_name)]

GenerateDescriptorDeclarations ==
  /\ declaration_out' = <<DescriptorDeclaration(descriptor_, dllexport_decl_)>>
  /\ previous_out' =
       [previous_out EXCEPT !["GenerateDescriptorDeclarations"] = declaration_out]
  /\ last_call' = "GenerateDescriptorDeclarations"
  /\ UNCHANGED <<descriptor_, dllexport_decl_, definition_out, descriptor_out,
                 locals, value_calls>>

\* -------------------------------------------------- GenerateEnumDescriptor
\* One table record: { "$enum_value_name$", "$c_enum_value_name$", $value$ }.
GenerateValueInitializer(desc, index) ==
  [enum_value_name   |-> value(desc, index).name,
   c_enum_value_name |-> FullNameToUpper(desc.full_name) \o <<95, 95>>
                           \o ToUpper(value(desc, index).name),
   value             |-> SimpleItoa(value(desc, index).number)]

\* Lines 157-160: the loop that counts the unique values and moves each
\* first occurrence down, in place.
RECURSIVE UniqueScanLoop(_, _, _, _)
UniqueScanLoop(value_index, n_unique_values, j, n) ==
  IF j >= n
  THEN [value_index |-> value_index, n_unique_values |-> n_unique_values]
  ELSE IF value_index[j - 1].value # value_index[j].value
       THEN UniqueScanLoop([value_index EXCEPT ![n_unique_values] = value_index[j]],
                           n_unique_values + 1, j + 1, n)
       ELSE UniqueScanLoop(value_index, n_unique_values, j + 1, n)

\* Faulty variant of UniqueScan: the count of a non-empty array starts at 0.
UniqueScanFromZero(value_index, n) ==
  IF n = 0
  THEN [value_index |-> value_index, n_unique_values |-> 0]
  ELSE UniqueScanLoop(value_index, 0, 1, n)

\* Lines 152-161.
UniqueScan(value_index, n) ==
  IF n = 0
  THEN [value_index |-> value_index, n_unique_values |-> 0]
  ELSE UniqueScanLoop(value_index, 1, 1, n)

\* Lines 169-173: the indices the emission loop hands to
\* GenerateValueInitializer, reading the array the unique scan left.
RECURSIVE EmitLoop(_, _, _)
EmitLoop(value_index, j, n) ==
  IF j >= n THEN <<>>
  ELSE (IF value_index[j - 1].value # value_index[j].value
        THEN <<value_index[j].index>> ELSE <<>>)
       \o EmitLoop(value_index, j + 1, n)

\* Lines 167-174.
ByNumberCalls(value_index, n) ==
  IF n > 0 THEN <<value_index[0].index>> \o EmitLoop(value_index, 1, n) ELSE <<>>

\* Lines 180-182.
ByNameCalls(name_index, n) == [j \in 1..n |-> name_index[j - 1].index]

\* What GenerateEnumDescriptor computes from the two sorted arrays.
EnumDescriptorLocals(name_index, sorted_value_index, n) ==
  LET scan == UniqueScan(sorted_value_index, n)
  IN  [name_index      |-> name_index,
       value_index     |-> scan.value_index,
       n_unique_values |-> scan.n_unique_values,
       by_number_index |-> ByNumberCalls(scan.value_index, n),
       by_name_index   |-> ByNameCalls(name_index, n)]

\* The three literals GenerateEnumDescriptor prints.
EnumDescriptorText(desc, loc) ==
  [fullname           |-> desc.full_name,
   shortname          |-> desc.name,
   cname              |-> FullNameToC(desc.full_name),
   lcclassname        |-> FullNameToLower(desc.full_name),
   packagename        |-> desc.package,
   unique_value_count |-> SimpleItoa(loc.n_unique_values),
   values_by_number   |-> [k \in 1..Len(loc.by_number_index) |->
                             GenerateValueInitializer(desc, loc.by_number_index[k])],
   value_count        |-> SimpleItoa(value_count(desc)),
   values_by_name     |-> [k \in 1..Len(loc.by_name_index) |->
                             GenerateValueInitializer(desc, loc.by_name_index[k])]]

\* What one call may leave in its locals: lines 137-149 build and sort the
\* two arrays afresh from the descriptor, lines 151-182 scan them.
EnumDescriptorRuns(desc) ==
  {EnumDescriptorLocals(name_index, value_index, value_count(desc)) :
     name_index \in SortedNameIndex(desc), value_index \in SortedValueIndex(desc)}

\* The indices GenerateEnumDescriptor passes to descriptor_->value(): every
\* loop index (line 140) and every index given to GenerateValueInitializer.
EnumDescriptorValueCalls(desc, loc) ==
  (0..(value_count(desc) - 1))
    \cup {loc.by_number_index[k] : k \in 1..Len(loc.by_number_index)}
    \cup {loc.by_name_index[k] : k \in 1..Len(loc.by_name_index)}

GenerateEnumDescriptor ==
  \E loc \in EnumDescriptorRuns(descriptor_) :
    /\ locals' = loc
    /\ descriptor_out' = <<EnumDescriptorText(descriptor_, loc)>>
    /\ previous_out' =
         [previous_out EXCEPT !["GenerateEnumDescriptor"] = descriptor_out]
    /\ value_calls' = value_calls \cup EnumDescriptorValueCalls(descriptor_, loc)
    /\ last_call' = "GenerateEnumDescriptor"
    /\ UNCHANGED <<descriptor_, dllexport_decl_, definition_out, declaration_out>>

\* ----------------------------------------------------------- specification
\* The driver calls the three renderers of one generator in any order, any
\* number of times.
Init == Constructed(Descriptors(MaxDriverN), DllexportDecls)

Next ==
  \/ GenerateDefinition
  \/ GenerateDescriptorDeclarations
  \/ GenerateEnumDescriptor

Spec == Init /\ [][Next]_vars

\* The driver generates the tables of one enum, once.
TablesInit == Constructed(Descriptors(MaxN), {<<>>})

TablesNext == descriptor_out = <<>> /\ GenerateEnumDescriptor

TablesSpec == TablesInit /\ [][TablesNext]_vars

\* ------------------------------------------------------------------ claims
N == value_count(descriptor_)

\* The distinct integer values of the input.
DistinctNumbers == {descriptor_.values[i].number : i \in 1..N}

DistinctNames == \A i, j \in 1..N : i # j => descriptor_.values[i].name # descriptor_.values[j].name

\* The number of the value the k-th record of the values-by-number table
\* was printed for.
ByNumberValue(k) == value(descriptor_, locals.by_number_index[k]).number

\* Byte-wise lexicographic a <= b.
LexLeq(a, b) ==
  \/ Len(a) <= Len(b) /\ \A i \in 1..Len(a) : a[i] = b[i]
  \/ \E k \in 1..Len(a) :
       /\ k <= Len(b)
       /\ \A i \in 1..(k - 1) : a[i] = b[i]
       /\ a[k] < b[k]

TablesPrinted == descriptor_out # <<>>

\* The tables of a well-formed enum (pairwise distinct names) are printed.
WellFormedTablesPrinted == TablesPrinted /\ DistinctNames

\* C1: the values-by-number table holds as many records as the input has
\* distinct integer values (stated for well-formed enums).
C1_ByNumberLengthIsDistinctCount ==
  WellFormedTablesPrinted =>
    Len(descriptor_out[1].values_by_number) = Cardinality(DistinctNumbers)

\* C2: the records of the values-by-number table are in strictly ascending
\* order of integer value (stated for well-formed enums).
C2_ByNumberStrictlyAscending ==
  WellFormedTablesPrinted =>
    \A k \in 1..(Len(locals.by_number_index) - 1) :
      ByNumberValue(k) < ByNumberValue(k + 1)

\* C3: every record of the values-by-number table is printed for the value
\* with the smallest declaration index among the values of its number
\* (stated for well-formed enums).
C3_ByNumberKeepsFirstDeclared ==
  WellFormedTablesPrinted =>
    \A k \in 1..Len(locals.by_number_index) :
      \A i \in 0..(N - 1) :
        value(descriptor_, i).number = ByNumberValue(k)
          => locals.by_number_index[k] <= i

\* C4: with pairwise distinct names, the values-by-name table has N records,
\* one for every declaration index, in byte-wise ascending order of name.
C4_ByNameSortedPermutation ==
  (TablesPrinted /\ DistinctNames) =>
    LET t == descriptor_out[1].values_by_name
    IN  /\ Len(t) = N
        /\ Len(locals.by_name_index) = N
        /\ {locals.by_name_index[k] : k \in 1..N} = 0..(N - 1)
        /\ \A k \in 1..N :
             t[k].enum_value_name = value(descriptor_, locals.by_name_index[k]).name
        /\ \A k \in 1..(N - 1) : LexLeq(t[k].enum_value_name, t[k + 1].enum_value_name)

\* Reached for C4: four distinctly named values, two of them sharing a
\* number, declared in an order that is not the name order.
C4_Witness ==
  /\ TablesPrinted /\ DistinctNames /\ N = 4
  /\ Cardinality(DistinctNumbers) < N
  /\ locals.by_name_index # <<0, 1, 2, 3>>

\* C5: the descriptor record carries the number of distinct integer values
\* as unique_value_count and N as value_count.
C5_DescriptorCounts ==
  TablesPrinted =>
    /\ locals.n_unique_values = Cardinality(DistinctNumbers)
    /\ descriptor_out[1].unique_value_count = SimpleItoa(Cardinality(DistinctNumbers))
    /\ descriptor_out[1].value_count = SimpleItoa(N)

\* Reached for C5: four values, three of them sharing one number.
C5_Witness ==
  /\ TablesPrinted /\ N = 4
  /\ \E v \in Numbers : Cardinality({i \in 1..N : descriptor_.values[i].number = v}) = 3
  /\ descriptor_out[1].unique_value_count = <<50>>
  /\ descriptor_out[1].value_count = <<52>>

\* C6: every member of the type declaration is named ConstantPrefix followed
\* by the upper-cased value name, the constant name of the value's table
\* record.
C6_MemberNameIsConstantName ==
  definition_out # <<>> =>
    \A i \in 1..N :
      /\ definition_out[1].members[i].name =
           FullNameToUpper(descriptor_.full_name) \o <<95, 95>>
             \o ToUpper(descriptor_.values[i].name)
      /\ definition_out[1].members[i].name =
           GenerateValueInitializer(descriptor_, i - 1).c_enum_value_name

\* C7: for an empty enum no renderer asks the descriptor for a value (no
\* index is in 0..N-1), the declaration has no members, both tables are
\* empty and both counts are 0.
C7_EmptyEnumIsVacuous ==
  N = 0 =>
    /\ value_calls \subseteq 0..(N - 1)
    /\ definition_out # <<>> => definition_out[1].members = <<>>
    /\ TablesPrinted =>
         /\ descriptor_out[1].values_by_number = <<>>
         /\ descriptor_out[1].values_by_name = <<>>
         /\ descriptor_out[1].unique_value_count = <<48>>
         /\ descriptor_out[1].value_count = <<48>>

\* C8: the members of the type declaration are the values in declaration
\* order, member i carrying value i's name and number, whichever renderers
\* ran before.
C8_MembersInDeclarationOrder ==
  definition_out # <<>> =>
    /\ Len(definition_out[1].members) = N
    /\ \A i \in 1..N :
         /\ definition_out[1].members[i].number = SimpleItoa(descriptor_.values[i].number)
         /\ definition_out[1].members[i].name =
              FullNameToUpper(descriptor_.full_name) \o <<95, 95>>
                \o descriptor_.values[i].name

\* Reached for C8: GenerateDefinition has just run after GenerateEnumDescriptor
\* on two values declared against both the number order and the name order.
C8_Witness ==
  /\ last_call = "GenerateDefinition" /\ TablesPrinted /\ N = 2
  /\ descriptor_.values[1].number > descriptor_.values[2].number
  /\ ~LexLeq(descriptor_.values[1].name, descriptor_.values[2].name)
  /\ locals.by_name_index = <<1, 0>>

\* C9: with pairwise distinct names, no renderer call changes the
\* descriptor, and a renderer that has run before prints again what it
\* printed then and leaves the same rebuilt index arrays.
C9_Idempotent ==
  [][DistinctNames =>
       /\ descriptor_' = descriptor_
       /\ definition_out # <<>> => definition_out' = definition_out
       /\ declaration_out # <<>> => declaration_out' = declaration_out
       /\ descriptor_out # <<>> => (descriptor_out' = descriptor_out /\ locals' = locals)]_vars

\* Reached for C9: every renderer has run at least twice on two distinctly
\* named values sharing one number.
C9_Witness ==
  /\ DistinctNames /\ N = 2
  /\ Cardinality(DistinctNumbers) = 1
  /\ \A r \in Renderers : previous_out[r] # <<>>
  /\ previous_out["GenerateEnumDescriptor"] = descriptor_out

\* C10: the emission scan prints the records of
\* value_index[0 .. n_unique_values-1], as the unique-count scan left them,
\* in that order (stated for well-formed enums).
C10_EmissionFollowsCompactedArray ==
  WellFormedTablesPrinted =>
    locals.by_number_index =
      [k \in 1..locals.n_unique_values |-> locals.value_index[k - 1].index]

====
